---------------------------- MODULE Spec2Model ----------------------------
(***************************************************************************)
(* A model of packages/skin-database/tasks/bluesky.ts: the task that posts *)
(* one skin's screenshot to Bluesky, records the post in the skin store    *)
(* and relays the post's url to a Discord channel.                         *)
(*                                                                         *)
(* Every `await` of postToBluesky and post is one operation.  An           *)
(* invocation is always suspended on exactly one operation (pc); the       *)
(* action that resolves an operation applies its effect and, as the        *)
(* JavaScript continuation does, synchronously issues the next one.        *)
(*                                                                         *)
(* And of four hooks of packages/webamp/js/hooks.ts, each taken alone:     *)
(* useCursorPositionRef, usePromiseValueOrNull, useOnClickAway and         *)
(* useWindowSize (CursorSpec, PromiseSpec, ClickAwaySpec, WindowSizeSpec). *)
(***************************************************************************)
EXTENDS Integers, Sequences, FiniteSets, TLC

(***************************************************************************)
(* Bounds of the model.                                                    *)
(***************************************************************************)
\* Number of invocations of postToBluesky in one behaviour.
MaxInv == 2
\* Longest skin name (in code points) drawn for the composed post.
MaxNameLen == 2
\* Largest source screenshot width and height drawn for the composed post.
MaxDim == 2
\* Number of components that use useCursorPositionRef.
MaxComp == 3
\* Largest pageX and pageY of a mousemove event.
MaxCoord == 3
\* Number of promises a component hands to usePromiseValueOrNull.
MaxPromises == 2
\* Number of times the effect of usePromiseValueOrNull runs.
MaxEffects == 3
\* Number of clicks on the document after the effect of useOnClickAway ran.
MaxClicks == 3
\* Largest width and height of the window.
MaxWindow == 2
\* Number of resize events the handler of useWindowSize receives.
MaxResizes == 2

Inv == 1..MaxInv

NULL == "null"

\* The skins of the store, by md5.
Md5s == {"m1", "m2"}

(***************************************************************************)
(* Strings.  A string is a sequence of Unicode code points; JavaScript's   *)
(* String.length counts UTF-16 code units and the AT protocol's facet      *)
(* offsets count UTF-8 bytes.                                              *)
(***************************************************************************)
\* "A" (U+0041), "e-acute" (U+00E9), the euro sign (U+20AC), an emoji (U+1F600)
CodePoints == {65, 233, 8364, 128512}

Utf8Len(cp) == IF cp < 128 THEN 1 ELSE IF cp < 2048 THEN 2 ELSE IF cp < 65536 THEN 3 ELSE 4

Utf16Len(cp) == IF cp < 65536 THEN 1 ELSE 2

RECURSIVE SumLen(_, _, _)
SumLen(s, k, unit) == IF k = 0 THEN 0 ELSE SumLen(s, k - 1, unit) + (IF unit = "utf8" THEN Utf8Len(s[k]) ELSE Utf16Len(s[k]))

\* The byte length of the UTF-8 encoding of s.
ByteLength(s) == SumLen(s, Len(s), "utf8")

\* s.length in JavaScript.
JsLength(s) == SumLen(s, Len(s), "utf16")

\* " via the Winamp Skin Museum"
Suffix == <<32, 118, 105, 97, 32, 116, 104, 101, 32, 87, 105, 110, 97, 109, 112, 32, 83, 107, 105, 110, 32, 77, 117, 115, 101, 117, 109>>

\* `${name} via the Winamp Skin Museum`
PostText(name) == name \o Suffix

(***************************************************************************)
(* The post document.  A JavaScript object is a function from its keys;    *)
(* the key "type" stands for "$type".                                      *)
(***************************************************************************)
\* { ...a, ...b }: the keys of both, b's value where both have the key.
Spread(a, b) == [k \in DOMAIN a \cup DOMAIN b |-> IF k \in DOMAIN b THEN b[k] ELSE a[k]]

\* The facets array built in post.
Facets(name, uri) == <<[type |-> "app.bsky.richtext.facet", index |-> [byteStart |-> 0, byteEnd |-> JsLength(name)], features |-> <<[type |-> "app.bsky.richtext.facet#link", uri |-> uri]>>]>>

buildImageEmbed(imgBlob, width, height) == [type |-> "app.bsky.embed.images", images |-> <<[image |-> imgBlob, aspectRatio |-> [width |-> width, height |-> height], alt |-> ""]>>]

\* The document's createdAt (the wall clock at composition) is not modelled.
buildPost(text, facets, imageEmbed) == [text |-> text, facets |-> facets, type |-> "app.bsky.feed.post", embed |-> Spread([type |-> "app.bsky.embed.recordWithMedia"], imageEmbed)]

(***************************************************************************)
(* The skin store's data (SkinModel, Skins): what the getters of a skin    *)
(* return.  "m1" has an ASCII file name, "m2" a name with non-ASCII        *)
(* characters.                                                             *)
(***************************************************************************)
\* skin.getFileName()
SkinName(m) == IF m = "m1" THEN <<65, 65>> ELSE <<233, 128512>>

\* skin.getMuseumUrl()
MuseumUrl(m) == <<"museum", m>>

\* sharp(screenshot).metadata(): the screenshot's width and height.
ScreenshotSize(m) == IF m = "m1" THEN [width |-> 1, height |-> 2] ELSE [width |-> 2, height |-> 1]

(***************************************************************************)
(* The operations awaited by one invocation, in program order.             *)
(***************************************************************************)
Ops == <<"pick", "fromMd5Assert", "getScreenshotBuffer", "metadata", "resize", "getFileName", "getScreenshotFileName", "login", "upload", "buildPost", "post", "mark", "fetch", "send">>

OpSet == {Ops[k] : k \in 1..Len(Ops)}

\* The place of each operation in the program order.
OpIndexOf == [op \in OpSet |-> CHOOSE k \in 1..Len(Ops) : Ops[k] = op]

OpIndex(op) == OpIndexOf[op]

\* NextOp with the store marked before the post is submitted.
NextOpRecordFirst(op) == CASE op = "buildPost" -> "mark"
                           [] op = "mark" -> "post"
                           [] op = "post" -> "fetch"
                           [] OTHER -> Ops[OpIndex(op) + 1]

\* The operation awaited after op resolves: the next `await` of the source.
NextOp(op) == Ops[OpIndex(op) + 1]

\* What the collaborator behind op throws when it fails.
ErrorOf(op) == CASE op \in {"pick", "fromMd5Assert", "getScreenshotBuffer", "getFileName", "getScreenshotFileName", "mark"} -> "StoreError"
                 [] op \in {"metadata", "resize"} -> "ImageError"
                 [] op \in {"login", "upload", "post"} -> "PlatformError"
                 [] op \in {"fetch", "send"} -> "DiscordError"

\* new Error("Failed to upload image")
UploadFailed == "Failed to upload image"

VARIABLES pc, arg, md5, dstResp, blob, postData, reqSession, postResp, url, error, log, posted, posts, uploads, agentSession, sent, draft

\* The state of the hooks of hooks.ts.
VARIABLES mounted, listenerRefCount, mouseMoveAdds, cursorPositionRef

VARIABLES propValue, effects, resolved, value

VARIABLES onClickAway, clicks, callbackCalls

VARIABLES windowSize, size, resizeListener, throttled, elapsed

cursorVars == <<mounted, listenerRefCount, mouseMoveAdds, cursorPositionRef>>

promiseVars == <<propValue, effects, resolved, value>>

clickVars == <<onClickAway, clicks, callbackCalls>>

windowVars == <<windowSize, size, resizeListener, throttled, elapsed>>

hooks == <<cursorVars, promiseVars, clickVars, windowVars>>

vars == <<hooks, pc, arg, md5, dstResp, blob, postData, reqSession, postResp, url, error, log, posted, posts, uploads, agentSession, sent, draft>>

\* The locals of the invocations.
locals == <<arg, md5, dstResp, blob, postData, reqSession, postResp, url>>

\* The world outside the invocations: store, platform, agent, channel.
world == <<posted, posts, uploads, agentSession, sent>>

\* The state of the composition of one post taken alone (see ComposeSpec).
elsewhere == <<draft, hooks>>

\* The publishing task as a whole, which no hook touches.
pipeline == <<locals, pc, error, log, world, draft>>

Finished(i) == pc[i] \in {"returned", "threw"}

Running(i) == pc[i] \in OpSet

Event(op, ev) == [op |-> op, ev |-> ev]

Md5Order == <<"m1", "m2">>

\* A local that has not been assigned yet.
NoBlob == [ref |-> 0, session |-> 0]

NoDstResp == "none"

NoDoc == [text |-> <<>>]

NoUrl == <<"at", 0>>

NoResp == [cid |-> 0, uri |-> NoUrl]

\* No post is being composed alone.
NoDraft == [pc |-> "none"]

\* The store marks skin m as posted to Bluesky.
Published(m) == posted[m] # {}

\* The posts of earlier runs, one per skin of P, and the marks the store holds for them.
EarlierPosts(P) == LET ms == SelectSeq(Md5Order, LAMBDA m : m \in P) IN [k \in 1..Len(ms) |-> [by |-> 0, md5 |-> ms[k], doc |-> NoDoc, session |-> 0]]

\* The response of agent.post for the n-th post of the platform.
PostResp(n) == [cid |-> n, uri |-> <<"at", n>>]

Mark(postId, postUrl) == [postId |-> postId, url |-> postUrl]

InitLocals == /\ pc = [i \in Inv |-> "idle"]
              /\ arg = [i \in Inv |-> NULL]
              /\ md5 = [i \in Inv |-> NULL]
              /\ dstResp = [i \in Inv |-> NoDstResp]
              /\ blob = [i \in Inv |-> NoBlob]
              /\ postData = [i \in Inv |-> NoDoc]
              /\ reqSession = [i \in Inv |-> 0]
              /\ postResp = [i \in Inv |-> NoResp]
              /\ url = [i \in Inv |-> NoUrl]
              /\ error = [i \in Inv |-> NULL]
              /\ log = [i \in Inv |-> <<>>]

\* The store and the platform after earlier runs posted the skins of P; the
\* module's agent has no session and this run's channel messages are none.
InitWorld(P) == /\ posts = EarlierPosts(P)
                /\ posted = [m \in Md5s |-> IF m \in P THEN LET n == CHOOSE k \in 1..Len(EarlierPosts(P)) : EarlierPosts(P)[k].md5 = m IN {Mark(PostResp(n).cid, PostResp(n).uri)} ELSE {}]
                /\ uploads = 0
                /\ agentSession = 0
                /\ sent = <<>>

\* No component is mounted; `let listenerRefCount = 0` and the ref of line 68.
InitCursor == /\ mounted = [c \in 1..MaxComp |-> FALSE]
              /\ listenerRefCount = 0
              /\ mouseMoveAdds = 0
              /\ cursorPositionRef = [pageX |-> 0, pageY |-> 0]

\* No component uses usePromiseValueOrNull yet and no promise has resolved.
InitPromise == /\ propValue = 0
               /\ effects = <<>>
               /\ resolved = {}
               /\ value = 0

\* The effect of useOnClickAway has not run and nothing was clicked.
InitClickAway == /\ onClickAway = [phase |-> "none", listener |-> FALSE]
                 /\ clicks = <<>>
                 /\ callbackCalls = 0

\* The window is w wide and high; no component uses useWindowSize yet.
InitWindowSize(w) == /\ windowSize = w
                     /\ size = w
                     /\ resizeListener = "none"
                     /\ throttled = 0
                     /\ elapsed = 0

InitHooks == /\ InitCursor
             /\ InitPromise
             /\ InitClickAway
             /\ InitWindowSize([width |-> 1, height |-> 1])

Init == /\ InitHooks
        /\ InitLocals
        /\ \E P \in SUBSET Md5s : InitWorld(P)
        /\ draft = NoDraft

(***************************************************************************)
(* Control flow of an invocation.                                          *)
(***************************************************************************)
\* op resolved; the continuation runs to the next await and issues its call.
Proceed(i, op) == /\ pc' = [pc EXCEPT ![i] = NextOp(op)]
                  /\ log' = [log EXCEPT ![i] = @ \o <<Event(op, "ok"), Event(NextOp(op), "call")>>]
                  /\ error' = error

\* Throw with one retry: a rejected op is called once more before giving up.
ThrowAfterRetry(i, op, e) == IF Cardinality({k \in 1..Len(log[i]) : log[i][k] = [op |-> op, ev |-> "call"]}) < 2
                             THEN /\ pc' = pc
                                  /\ log' = [log EXCEPT ![i] = @ \o <<[op |-> op, ev |-> "fail"], [op |-> op, ev |-> "call"]>>]
                                  /\ error' = error
                             ELSE /\ pc' = [pc EXCEPT ![i] = "threw"]
                                  /\ log' = [log EXCEPT ![i] = Append(@, [op |-> op, ev |-> "fail"])]
                                  /\ error' = [error EXCEPT ![i] = e]

\* op rejected: nothing catches, so the promise of postToBluesky rejects with e.
Throw(i, op, e) == /\ pc' = [pc EXCEPT ![i] = "threw"]
                   /\ log' = [log EXCEPT ![i] = Append(@, Event(op, "fail"))]
                   /\ error' = [error EXCEPT ![i] = e]

\* op resolved and postToBluesky returns.
Return(i, op) == /\ pc' = [pc EXCEPT ![i] = "returned"]
                 /\ log' = [log EXCEPT ![i] = Append(@, Event(op, "ok"))]
                 /\ error' = error

\* An operation with no effect on the world: it resolves or it rejects.
Plain(i, op) == /\ pc[i] = op
                /\ \/ Proceed(i, op)
                   \/ Throw(i, op, ErrorOf(op))
                /\ UNCHANGED <<locals, world, elsewhere>>

(***************************************************************************)
(* postToBluesky (lines 24-44) and post (lines 46-104), one action per     *)
(* awaited operation.                                                      *)
(***************************************************************************)
\* Invoke asking the store for a candidate whatever md5 it was given.
InvokeAlwaysPick(i, a) == /\ pc[i] = "idle"
                          /\ arg' = [arg EXCEPT ![i] = a]
                          /\ md5' = [md5 EXCEPT ![i] = a]
                          /\ pc' = [pc EXCEPT ![i] = "pick"]
                          /\ log' = [log EXCEPT ![i] = <<Event("pick", "call")>>]
                          /\ UNCHANGED <<dstResp, blob, postData, postResp, url, error, world, reqSession, elsewhere>>

\* The call postToBluesky(discordClient, a): it runs to its first await.
Invoke(i, a) == /\ pc[i] = "idle"
                /\ arg' = [arg EXCEPT ![i] = a]
                /\ md5' = [md5 EXCEPT ![i] = a]
                /\ LET first == IF a = NULL THEN "pick" ELSE "fromMd5Assert"
                   IN /\ pc' = [pc EXCEPT ![i] = first]
                      /\ log' = [log EXCEPT ![i] = <<Event(first, "call")>>]
                /\ UNCHANGED <<dstResp, blob, postData, postResp, url, error, world, reqSession, elsewhere>>

\* The caller (a scheduled job, a bot command) starts the next invocation
\* once the earlier ones have settled.
Start(i) == /\ \A j \in Inv : ~Running(j)
            /\ \A j \in Inv : j < i => pc[j] # "idle"
            /\ \E a \in Md5s \cup {NULL} : Invoke(i, a)

\* What Skins.getSkinToPostToBluesky() may resolve to: a skin the store does
\* not mark as posted, null when there is none.
Candidates == IF \E m \in Md5s : ~Published(m) THEN {m \in Md5s : ~Published(m)} ELSE {NULL}

\* Pick without the `if (md5 == null) return;` of lines 31-34.
PickNoNullCheck(i) == /\ pc[i] = "pick"
                      /\ \/ \E r \in Candidates :
                               /\ md5' = [md5 EXCEPT ![i] = r]
                               /\ Proceed(i, "pick")
                         \/ /\ Throw(i, "pick", ErrorOf("pick"))
                            /\ md5' = md5
                      /\ UNCHANGED <<arg, dstResp, blob, postData, postResp, url, world, reqSession, elsewhere>>

\* md5 = await Skins.getSkinToPostToBluesky(); if (md5 == null) return;
Pick(i) == /\ pc[i] = "pick"
           /\ \/ \E r \in Candidates :
                    /\ md5' = [md5 EXCEPT ![i] = r]
                    /\ IF r = NULL THEN Return(i, "pick") ELSE Proceed(i, "pick")
              \/ /\ Throw(i, "pick", ErrorOf("pick"))
                 /\ md5' = md5
           /\ UNCHANGED <<arg, dstResp, blob, postData, postResp, url, world, reqSession, elsewhere>>

\* const skin = await SkinModel.fromMd5Assert(ctx, md5);
FromMd5Assert(i) == Plain(i, "fromMd5Assert")

\* const screenshot = await Skins.getScreenshotBuffer(md5);
GetScreenshotBuffer(i) == Plain(i, "getScreenshotBuffer")

\* const { width, height } = await sharp(screenshot).metadata();
Metadata(i) == Plain(i, "metadata")

\* const image = await sharp(screenshot).resize(width * 2, height * 2, ...).toBuffer();
Resize(i) == Plain(i, "resize")

\* const name = await skin.getFileName();
GetFileName(i) == Plain(i, "getFileName")

\* const screenshotFileName = await skin.getScreenshotFileName();
GetScreenshotFileName(i) == Plain(i, "getScreenshotFileName")

\* Login with the agent's session cached: a live session is kept.
LoginCached(i) == /\ pc[i] = "login"
                  /\ \/ /\ agentSession' = IF agentSession # 0 THEN agentSession ELSE i
                        /\ Proceed(i, "login")
                     \/ /\ agentSession' \in {agentSession, 0}
                        /\ Throw(i, "login", ErrorOf("login"))
                  /\ UNCHANGED <<locals, posted, posts, uploads, sent, elsewhere>>

\* await agent.login(...): the module's one agent holds the session.  A
\* rejected login leaves the agent's earlier session or clears it.
Login(i) == /\ pc[i] = "login"
            /\ \/ /\ agentSession' = i
                  /\ Proceed(i, "login")
               \/ /\ agentSession' \in {agentSession, 0}
                  /\ Throw(i, "login", ErrorOf("login"))
            /\ UNCHANGED <<locals, posted, posts, uploads, sent, elsewhere>>

\* The blob the platform returns for its n-th upload, made under session s.
BlobRef(n, s) == [ref |-> n, session |-> s]

\* uploadImageFromFilePath without the check of dstResp.success.
uploadImageFromFilePathUnchecked(i, success) == /\ blob' = [blob EXCEPT ![i] = BlobRef(uploads + 1, agentSession)]
                                                /\ Proceed(i, "upload")

\* if (!dstResp.success) throw new Error("Failed to upload image");
\* return dstResp.data.blob;
uploadImageFromFilePath(i, success) == IF success THEN /\ blob' = [blob EXCEPT ![i] = BlobRef(uploads + 1, agentSession)]
                                                       /\ Proceed(i, "upload")
                                       ELSE /\ blob' = blob
                                            /\ Throw(i, "upload", UploadFailed)

\* const blob = await withBufferAsTempFile(image, screenshotFileName, ...):
\* the platform answers agent.uploadBlob with dstResp, whose success flag
\* ("success" or "failure" here) says whether it stored the bytes, or the
\* call (the temp file, the request) throws.
Upload(i) == /\ pc[i] = "upload"
             /\ \/ /\ agentSession # 0
                   /\ \E success \in BOOLEAN :
                         /\ uploads' = IF success THEN uploads + 1 ELSE uploads
                         /\ dstResp' = [dstResp EXCEPT ![i] = IF success THEN "success" ELSE "failure"]
                         /\ uploadImageFromFilePath(i, success)
                \/ /\ Throw(i, "upload", ErrorOf("upload"))
                   /\ UNCHANGED <<dstResp, blob, uploads>>
             /\ UNCHANGED <<arg, md5, postData, postResp, url, posted, posts, agentSession, sent, reqSession, elsewhere>>

\* The facets and the arguments of buildPost, from the locals of post.
ComposePost(m, b) == buildPost(PostText(SkinName(m)), Facets(SkinName(m), MuseumUrl(m)), buildImageEmbed(b, ScreenshotSize(m).width * 2, ScreenshotSize(m).height * 2))

\* const postData = await buildPost(...): no input or output, it cannot fail.
\* The continuation calls agent.post(postData), and the agent sends the
\* request under the session it holds at that moment.
BuildPost(i) == /\ pc[i] = "buildPost"
                /\ postData' = [postData EXCEPT ![i] = ComposePost(md5[i], blob[i])]
                /\ reqSession' = [reqSession EXCEPT ![i] = agentSession]
                /\ Proceed(i, "buildPost")
                /\ UNCHANGED <<arg, md5, dstResp, blob, postResp, url, world, elsewhere>>

\* const postResp = await agent.post(postData): the platform publishes the
\* document and answers with the post's cid and uri.
Post(i) == /\ pc[i] = "post"
           /\ \/ /\ reqSession[i] # 0
                 /\ posts' = Append(posts, [by |-> i, md5 |-> md5[i], doc |-> postData[i], session |-> reqSession[i]])
                 /\ postResp' = [postResp EXCEPT ![i] = PostResp(Len(posts) + 1)]
                 /\ Proceed(i, "post")
              \/ /\ Throw(i, "post", ErrorOf("post"))
                 /\ UNCHANGED <<posts, postResp>>
           /\ UNCHANGED <<arg, md5, dstResp, blob, postData, url, posted, uploads, agentSession, sent, reqSession, elsewhere>>

\* MarkAsPostedToBlueSky with a rejected write caught and ignored.
MarkSwallowingFailure(i) == /\ pc[i] = "mark"
                            /\ \/ /\ posted' = [posted EXCEPT ![md5[i]] = {Mark(postResp[i].cid, postResp[i].uri)}]
                                  /\ Proceed(i, "mark")
                               \/ /\ posted' = posted
                                  /\ pc' = [pc EXCEPT ![i] = "fetch"]
                                  /\ log' = [log EXCEPT ![i] = @ \o <<Event("mark", "fail"), Event("fetch", "call")>>]
                                  /\ error' = error
                            /\ url' = [url EXCEPT ![i] = postResp[i].uri]
                            /\ UNCHANGED <<arg, md5, dstResp, blob, postData, postResp, posts, uploads, agentSession, sent, reqSession, elsewhere>>

\* MarkAsPostedToBlueSky with a write that resolves without marking the skin.
MarkWithoutWrite(i) == /\ pc[i] = "mark"
                       /\ \/ /\ url' = [url EXCEPT ![i] = postResp[i].uri]
                             /\ Proceed(i, "mark")
                          \/ /\ Throw(i, "mark", ErrorOf("mark"))
                             /\ url' = url
                       /\ UNCHANGED <<arg, md5, dstResp, blob, postData, postResp, posted, posts, uploads, agentSession, sent, reqSession, elsewhere>>

\* MarkAsPostedToBlueSky with post returning `url`, the skin's museum page,
\* in place of postUrl.
MarkReturningMuseumUrl(i) == /\ pc[i] = "mark"
                             /\ \/ /\ posted' = [posted EXCEPT ![md5[i]] = {Mark(postResp[i].cid, postResp[i].uri)}]
                                   /\ url' = [url EXCEPT ![i] = MuseumUrl(md5[i])]
                                   /\ Proceed(i, "mark")
                                \/ /\ Throw(i, "mark", ErrorOf("mark"))
                                   /\ UNCHANGED <<posted, url>>
                             /\ UNCHANGED <<arg, md5, dstResp, blob, postData, postResp, posts, uploads, agentSession, sent, reqSession, elsewhere>>

\* await Skins.markAsPostedToBlueSky(md5, postId, postUrl); return postUrl;
\* then, in postToBluesky, const url = await post(md5).
MarkAsPostedToBlueSky(i) == /\ pc[i] = "mark"
                            /\ \/ /\ posted' = [posted EXCEPT ![md5[i]] = {Mark(postResp[i].cid, postResp[i].uri)}]
                                  /\ url' = [url EXCEPT ![i] = postResp[i].uri]
                                  /\ Proceed(i, "mark")
                               \/ /\ Throw(i, "mark", ErrorOf("mark"))
                                  /\ UNCHANGED <<posted, url>>
                            /\ UNCHANGED <<arg, md5, dstResp, blob, postData, postResp, posts, uploads, agentSession, sent, reqSession, elsewhere>>

\* const tweetBotChannel = await discordClient.channels.fetch(TWEET_BOT_CHANNEL_ID);
Fetch(i) == Plain(i, "fetch")

\* await tweetBotChannel.send(url); and postToBluesky returns.
Send(i) == /\ pc[i] = "send"
           /\ \/ /\ sent' = Append(sent, [by |-> i, url |-> url[i]])
                 /\ Return(i, "send")
              \/ /\ Throw(i, "send", ErrorOf("send"))
                 /\ sent' = sent
           /\ UNCHANGED <<locals, posted, posts, uploads, agentSession, elsewhere>>

Next == \E i \in Inv :
           \/ Start(i)
           \/ Pick(i)
           \/ FromMd5Assert(i)
           \/ GetScreenshotBuffer(i)
           \/ Metadata(i)
           \/ Resize(i)
           \/ GetFileName(i)
           \/ GetScreenshotFileName(i)
           \/ Login(i)
           \/ Upload(i)
           \/ BuildPost(i)
           \/ Post(i)
           \/ MarkAsPostedToBlueSky(i)
           \/ Fetch(i)
           \/ Send(i)

\* Invocations one after another.
Spec == Init /\ [][Next]_vars

\* A caller starts an invocation while earlier ones are still in flight:
\* postToBluesky is an exported async function and nothing in it waits for
\* another call of it.
StartOverlapping(i) == /\ \A j \in Inv : j < i => pc[j] # "idle"
                       /\ \E a \in Md5s \cup {NULL} : Invoke(i, a)

OverlapNext == \E i \in Inv :
                  \/ StartOverlapping(i)
                  \/ Pick(i)
                  \/ FromMd5Assert(i)
                  \/ GetScreenshotBuffer(i)
                  \/ Metadata(i)
                  \/ Resize(i)
                  \/ GetFileName(i)
                  \/ GetScreenshotFileName(i)
                  \/ Login(i)
                  \/ Upload(i)
                  \/ BuildPost(i)
                  \/ Post(i)
                  \/ MarkAsPostedToBlueSky(i)
                  \/ Fetch(i)
                  \/ Send(i)

\* Invocations that overlap in time: each awaited call of one may resolve
\* between any two awaited calls of another.
OverlapSpec == Init /\ [][OverlapNext]_vars

(***************************************************************************)
(* The composition of one post taken alone (post, lines 50-95): the same   *)
(* operators as in the invocations above, applied to every skin name and   *)
(* screenshot size within the bounds.                                      *)
(***************************************************************************)
\* The file names: non-empty strings of at most MaxNameLen code points.
Names == UNION {[1..n -> CodePoints] : n \in 1..MaxNameLen}

\* The arguments of .resize(width * 2, height * 2, ...).
ResizeRequest(width, height) == [width |-> width * 2, height |-> height * 2]

ComposeInit == /\ InitHooks
               /\ InitLocals
               /\ InitWorld({})
               /\ \E name \in Names, width \in 1..MaxDim, height \in 1..MaxDim : draft = [pc |-> "metadata", name |-> name, uri |-> MuseumUrl("m1"), width |-> width, height |-> height, blob |-> BlobRef(1, 1)]

\* const image = await sharp(screenshot).resize(width * 2, height * 2, ...).toBuffer();
DraftResize == /\ draft.pc = "metadata"
               /\ draft' = [pc |-> "resized", resized |-> ResizeRequest(draft.width, draft.height)] @@ draft
               /\ UNCHANGED <<locals, pc, error, log, world, hooks>>

\* const facets = [...]
DraftFacets == /\ draft.pc = "resized"
               /\ draft' = [pc |-> "facets", facets |-> Facets(draft.name, draft.uri)] @@ draft
               /\ UNCHANGED <<locals, pc, error, log, world, hooks>>

\* DraftImageEmbed handing buildImageEmbed the dimensions of the source image.
DraftImageEmbedSource == /\ draft.pc = "facets"
                         /\ draft' = [pc |-> "embed", embed |-> buildImageEmbed(draft.blob, draft.width, draft.height)] @@ draft
                         /\ UNCHANGED <<locals, pc, error, log, world, hooks>>

\* buildImageEmbed(blob, width * 2, height * 2)
DraftImageEmbed == /\ draft.pc = "facets"
                   /\ draft' = [pc |-> "embed", embed |-> buildImageEmbed(draft.blob, draft.width * 2, draft.height * 2)] @@ draft
                   /\ UNCHANGED <<locals, pc, error, log, world, hooks>>

\* const postData = await buildPost(`${name} via the Winamp Skin Museum`, facets, ...)
DraftBuildPost == /\ draft.pc = "embed"
                  /\ draft' = [pc |-> "done", doc |-> buildPost(PostText(draft.name), draft.facets, draft.embed)] @@ draft
                  /\ UNCHANGED <<locals, pc, error, log, world, hooks>>

ComposeNext == \/ DraftResize
               \/ DraftFacets
               \/ DraftImageEmbed
               \/ DraftBuildPost

\* One post composed from any name and any screenshot size.
ComposeSpec == ComposeInit /\ [][ComposeNext]_vars

(***************************************************************************)
(* The hooks of packages/webamp/js/hooks.ts, each taken alone.             *)
(***************************************************************************)
\* Every hook specification starts with no publishing task under way.
InitIdlePipeline == /\ InitLocals
                    /\ InitWorld({})
                    /\ draft = NoDraft

(***************************************************************************)
(* useCursorPositionRef (lines 68-103).  mouseMoveAdds counts the calls    *)
(* document.addEventListener("mousemove", globalMouseMoveHandler) made     *)
(* since the listener was last removed; the document holds the listener    *)
(* while it is positive.                                                   *)
(***************************************************************************)
Comp == 1..MaxComp

Coords == 0..MaxCoord

\* addGlobalMouseListener without the `listenerRefCount === 0` test.
addGlobalMouseListenerAlways == /\ mouseMoveAdds' = mouseMoveAdds + 1
                                /\ listenerRefCount' = listenerRefCount + 1

\* if (listenerRefCount === 0) document.addEventListener(...); listenerRefCount++;
addGlobalMouseListener == /\ mouseMoveAdds' = IF listenerRefCount = 0 THEN mouseMoveAdds + 1 ELSE mouseMoveAdds
                          /\ listenerRefCount' = listenerRefCount + 1

\* listenerRefCount--; if (listenerRefCount === 0) document.removeEventListener(...);
removeGlobalMouseListener == /\ listenerRefCount' = listenerRefCount - 1
                             /\ mouseMoveAdds' = IF listenerRefCount - 1 = 0 THEN 0 ELSE mouseMoveAdds

\* Component c mounts: the effect of useCursorPositionRef runs.
CursorMount(c) == /\ ~mounted[c]
                  /\ mounted' = [mounted EXCEPT ![c] = TRUE]
                  /\ addGlobalMouseListener
                  /\ UNCHANGED <<cursorPositionRef, promiseVars, clickVars, windowVars, pipeline>>

\* Component c unmounts: the cleanup of its effect runs.
CursorUnmount(c) == /\ mounted[c]
                    /\ mounted' = [mounted EXCEPT ![c] = FALSE]
                    /\ removeGlobalMouseListener
                    /\ UNCHANGED <<cursorPositionRef, promiseVars, clickVars, windowVars, pipeline>>

\* A mousemove event reaches the document's listener:
\* cursorPositionRef.current = { pageX: e.pageX, pageY: e.pageY };
globalMouseMoveHandler(x, y) == /\ mouseMoveAdds > 0
                                /\ cursorPositionRef' = [pageX |-> x, pageY |-> y]
                                /\ UNCHANGED <<mounted, listenerRefCount, mouseMoveAdds, promiseVars, clickVars, windowVars, pipeline>>

CursorNext == \/ \E c \in Comp : CursorMount(c)
              \/ \E c \in Comp : CursorUnmount(c)
              \/ \E x \in Coords, y \in Coords : globalMouseMoveHandler(x, y)

CursorInit == /\ InitHooks
              /\ InitIdlePipeline

\* Components mounting and unmounting in any order while the mouse moves.
CursorSpec == CursorInit /\ [][CursorNext]_vars

(***************************************************************************)
(* usePromiseValueOrNull (lines 27-44).  Each run of the effect is one     *)
(* entry of `effects`: the promise it subscribed to, its `disposed` flag   *)
(* and what its then-callback did ("pending" while it has not run).        *)
(* value = 0 stands for null; promise p resolves to ValueOf(p).            *)
(***************************************************************************)
Promises == 1..MaxPromises

ValueOf(p) == p

\* let disposed = false; propValue.then(...)
Effect(p) == [promise |-> p, disposed |-> FALSE, then |-> "pending"]

\* return () => { disposed = true; } of the effect that ran last.
Dispose(es) == [es EXCEPT ![Len(es)].disposed = TRUE]

\* The component is mounted: its last effect has not been cleaned up.
PromiseMounted == effects # <<>> /\ ~effects[Len(effects)].disposed

\* The component mounts with propValue p: useState(null), then the effect.
PromiseMount(p) == /\ effects = <<>>
                   /\ propValue' = p
                   /\ value' = 0
                   /\ effects' = <<Effect(p)>>
                   /\ UNCHANGED <<resolved, cursorVars, clickVars, windowVars, pipeline>>

\* The component renders with another promise: [propValue] has changed, so
\* the cleanup of the last effect runs and then the effect again.
PropValueReplaced(p) == /\ PromiseMounted
                        /\ p # propValue
                        /\ Len(effects) < MaxEffects
                        /\ propValue' = p
                        /\ effects' = Append(Dispose(effects), Effect(p))
                        /\ UNCHANGED <<resolved, value, cursorVars, clickVars, windowVars, pipeline>>

\* The component unmounts: the cleanup of the last effect runs.
PromiseUnmount == /\ PromiseMounted
                  /\ effects' = Dispose(effects)
                  /\ UNCHANGED <<propValue, resolved, value, cursorVars, clickVars, windowVars, pipeline>>

\* Promise p resolves, whenever its producer decides.
PromiseResolves(p) == /\ p \notin resolved
                      /\ resolved' = resolved \cup {p}
                      /\ UNCHANGED <<propValue, effects, value, cursorVars, clickVars, windowVars, pipeline>>

\* The then-callback without the `if (disposed) return;`.
ThenUnchecked(e) == /\ effects[e].then = "pending"
                    /\ effects[e].promise \in resolved
                    /\ \A d \in 1..(e - 1) : effects[d].promise = effects[e].promise => effects[d].then # "pending"
                    /\ value' = ValueOf(effects[e].promise)
                    /\ effects' = [effects EXCEPT ![e].then = "set"]
                    /\ UNCHANGED <<propValue, resolved, cursorVars, clickVars, windowVars, pipeline>>

\* The then-callback of effect e runs, once its promise has resolved and
\* after the callbacks subscribed to the same promise before it:
\* if (disposed) { return; } setValue(resolvedValue);
Then(e) == /\ effects[e].then = "pending"
           /\ effects[e].promise \in resolved
           /\ \A d \in 1..(e - 1) : effects[d].promise = effects[e].promise => effects[d].then # "pending"
           /\ IF effects[e].disposed
              THEN /\ value' = value
                   /\ effects' = [effects EXCEPT ![e].then = "returned"]
              ELSE /\ value' = ValueOf(effects[e].promise)
                   /\ effects' = [effects EXCEPT ![e].then = "set"]
           /\ UNCHANGED <<propValue, resolved, cursorVars, clickVars, windowVars, pipeline>>

PromiseNext == \/ \E p \in Promises : PromiseMount(p)
               \/ \E p \in Promises : PropValueReplaced(p)
               \/ PromiseUnmount
               \/ \E p \in Promises : PromiseResolves(p)
               \/ \E e \in 1..Len(effects) : Then(e)

PromiseInit == /\ InitHooks
               /\ InitIdlePipeline

\* One component whose promise is replaced and resolves in any order.
PromiseSpec == PromiseInit /\ [][PromiseNext]_vars

(***************************************************************************)
(* useOnClickAway (lines 142-177), one run of its effect.  onClickAway     *)
(* holds how the effect went and whether the document holds                *)
(* handleClickOut; callbackCalls counts the calls of the callback.         *)
(***************************************************************************)
\* ref: the element, or null.
Refs == {NULL, "element"}

\* callback: a function, or null.
Callbacks == {NULL, "callback"}

\* ee.target: an element inside ref, an element outside it, or a node that
\* is no Element.
Targets == {"inside", "outside", "text"}

\* What a call of the callback does: it returns, or it throws.
Outcomes == {"returns", "throws"}

\* The effect runs: if (ref == null || callback == null) return; otherwise
\* document.addEventListener("click", handleClickOut, { capture: true }).
UseOnClickAway(ref, callback) == /\ onClickAway.phase = "none"
                                 /\ onClickAway' = IF ref = NULL \/ callback = NULL
                                                   THEN [phase |-> "skipped", listener |-> FALSE]
                                                   ELSE [phase |-> "registered", listener |-> TRUE]
                                 /\ UNCHANGED <<clicks, callbackCalls, cursorVars, promiseVars, windowVars, pipeline>>

\* handleClickOut(ee): a target that is no Element or is inside ref returns
\* early; otherwise callback() and then removeEventListener, which is not
\* reached when the callback throws.
handleClickOut(target, outcome) == IF target \in {"text", "inside"}
                                   THEN UNCHANGED <<onClickAway, callbackCalls>>
                                   ELSE /\ callbackCalls' = callbackCalls + 1
                                        /\ onClickAway' = IF outcome = "returns" THEN [onClickAway EXCEPT !.listener = FALSE] ELSE onClickAway

\* A click on the document, after the effect ran: the document calls
\* handleClickOut if it holds it.
Click(target, outcome) == /\ onClickAway.phase # "none"
                          /\ Len(clicks) < MaxClicks
                          /\ clicks' = Append(clicks, target)
                          /\ IF onClickAway.listener
                             THEN handleClickOut(target, outcome)
                             ELSE UNCHANGED <<onClickAway, callbackCalls>>
                          /\ UNCHANGED <<cursorVars, promiseVars, windowVars, pipeline>>

\* The cleanup the effect returned runs (unmount, or new ref or callback):
\* document.removeEventListener("click", handleClickOut, { capture: true }).
ClickAwayCleanup == /\ onClickAway.phase = "registered"
                    /\ onClickAway' = [phase |-> "cleaned", listener |-> FALSE]
                    /\ UNCHANGED <<clicks, callbackCalls, cursorVars, promiseVars, windowVars, pipeline>>

ClickAwayNext == \/ \E ref \in Refs, callback \in Callbacks : UseOnClickAway(ref, callback)
                 \/ \E target \in Targets, outcome \in Outcomes : Click(target, outcome)
                 \/ ClickAwayCleanup

ClickAwayInit == /\ InitHooks
                 /\ InitIdlePipeline

\* One registration of useOnClickAway and the clicks that follow it.
ClickAwaySpec == ClickAwayInit /\ [][ClickAwayNext]_vars

(***************************************************************************)
(* useWindowSize (lines 52-66).  windowSize is what Utils.getWindowSize()  *)
(* returns, size the hook's state.  Utils.throttle(fn, 100) returns the    *)
(* throttled function (the source casts the result to `() => void`);       *)
(* `throttled` counts the ones the handler has built.  elapsed is the      *)
(* time, in ms, since the window was last resized.                         *)
(***************************************************************************)
\* The delay handed to Utils.throttle.
ThrottleDelay == 100

WindowSizes == [width : 1..MaxWindow, height : 1..MaxWindow]

\* The component mounts: useState(Utils.getWindowSize()), and the effect
\* calls window.addEventListener("resize", handler).
WindowSizeMount == /\ resizeListener = "none"
                   /\ size' = windowSize
                   /\ resizeListener' = "registered"
                   /\ UNCHANGED <<windowSize, throttled, elapsed, cursorVars, promiseVars, clickVars, pipeline>>

\* () => { Utils.throttle(() => { setSize(Utils.getWindowSize()); }, 100) as () => void; }
\* builds a throttled function and drops it: nothing calls it, so setSize
\* is not called and no timer is started.
handler == /\ throttled' = throttled + 1
           /\ size' = size

\* The window is resized to w; the window calls the resize listener if it
\* holds one.
WindowResized(w) == /\ w # windowSize
                    /\ throttled < MaxResizes
                    /\ windowSize' = w
                    /\ elapsed' = 0
                    /\ IF resizeListener = "registered" THEN handler ELSE UNCHANGED <<size, throttled>>
                    /\ UNCHANGED <<resizeListener, cursorVars, promiseVars, clickVars, pipeline>>

\* ThrottleDelay ms pass without a resize.
Tick == /\ elapsed < 2 * ThrottleDelay
        /\ elapsed' = elapsed + ThrottleDelay
        /\ UNCHANGED <<windowSize, size, resizeListener, throttled, cursorVars, promiseVars, clickVars, pipeline>>

\* The component unmounts: window.removeEventListener("resize", handler).
WindowSizeUnmount == /\ resizeListener = "registered"
                     /\ resizeListener' = "removed"
                     /\ UNCHANGED <<windowSize, size, throttled, elapsed, cursorVars, promiseVars, clickVars, pipeline>>

WindowSizeNext == \/ WindowSizeMount
                  \/ \E w \in WindowSizes : WindowResized(w)
                  \/ Tick
                  \/ WindowSizeUnmount

WindowSizeInit == /\ InitCursor
                  /\ InitPromise
                  /\ InitClickAway
                  /\ \E w \in WindowSizes : InitWindowSize(w)
                  /\ InitIdlePipeline

\* One component using useWindowSize while the window is resized.
WindowSizeSpec == WindowSizeInit /\ [][WindowSizeNext]_vars

(***************************************************************************)
(* What an invocation did, read from its log and from the world.           *)
(***************************************************************************)
Range(s) == {s[k] : k \in 1..Len(s)}

Last(s) == s[Len(s)]

Called(i, op) == \E k \in 1..Len(log[i]) : log[i][k].op = op /\ log[i][k].ev = "call"

Ok(i, op) == \E k \in 1..Len(log[i]) : log[i][k].op = op /\ log[i][k].ev = "ok"

Failed(i, op) == \E k \in 1..Len(log[i]) : log[i][k].op = op /\ log[i][k].ev = "fail"

\* The posts of the platform submitted by invocation i, of skin m.
PostsBy(i) == {k \in 1..Len(posts) : posts[k].by = i}

PostsOf(m) == {k \in 1..Len(posts) : posts[k].md5 = m}

\* The channel messages sent by invocation i.
SentBy(i) == {k \in 1..Len(sent) : sent[k].by = i}

\* The skins whose mark in the store names a post of invocation i.
MarksBy(i) == {m \in Md5s : \E mk \in posted[m] : posts[mk.postId].by = i}

\* The stages of one publish cycle, and the stage each awaited operation
\* belongs to.
Stages == <<"select", "transform", "login", "upload", "compose", "submit", "record", "notify">>

StageOf(op) == CASE op \in {"pick", "fromMd5Assert"} -> "select"
                 [] op \in {"getScreenshotBuffer", "metadata", "resize", "getFileName", "getScreenshotFileName"} -> "transform"
                 [] op = "login" -> "login"
                 [] op = "upload" -> "upload"
                 [] op = "buildPost" -> "compose"
                 [] op = "post" -> "submit"
                 [] op = "mark" -> "record"
                 [] op \in {"fetch", "send"} -> "notify"

StageIndexOf == [op \in OpSet |-> CHOOSE k \in 1..Len(Stages) : Stages[k] = StageOf(op)]

\* The place, in the order of the stages, of the stage of op.
StageIndex(op) == StageIndexOf[op]

(***************************************************************************)
(* C1: within one invocation the stages run in the order select,           *)
(* transform, login, upload, compose, submit, record, notify.  Every step  *)
(* of an invocation extends its log: the first step issues a call of the   *)
(* first stage; every other step resolves the one call in flight and       *)
(* issues at most one further call, only when the resolved call succeeded, *)
(* and that call is a later operation of the same or of the next stage.    *)
(* So no call is issued while another is in flight or after a failure.     *)
(***************************************************************************)
StagesInOrder == [][\A i \in Inv : log'[i] # log[i] =>
                       LET old == log[i]
                           new == SubSeq(log'[i], Len(log[i]) + 1, Len(log'[i]))
                       IN /\ log'[i] = old \o new
                          /\ IF old = <<>>
                             THEN /\ Len(new) = 1
                                  /\ new[1].ev = "call"
                                  /\ StageIndex(new[1].op) = 1
                             ELSE /\ Last(old).ev = "call"
                                  /\ Len(new) \in {1, 2}
                                  /\ new[1].op = Last(old).op
                                  /\ new[1].ev \in {"ok", "fail"}
                                  /\ Len(new) = 2 => /\ new[1].ev = "ok"
                                                     /\ new[2].ev = "call"
                                                     /\ OpIndex(new[1].op) < OpIndex(new[2].op)
                                                     /\ StageIndex(new[1].op) <= StageIndex(new[2].op)
                                                     /\ StageIndex(new[2].op) <= StageIndex(new[1].op) + 1]_vars

\* An invocation ran every stage and returned.
WitnessStagesInOrder == \E i \in Inv : pc[i] = "returned" /\ Ok(i, "send") /\ Ok(i, "pick")

(***************************************************************************)
(* C2: no post is submitted for a skin that the store marks as posted: in  *)
(* every step that adds a post to the platform, the post's skin is         *)
(* unmarked in the store.                                                  *)
(***************************************************************************)
NoRepublish == [][Len(posts') > Len(posts) => ~Published(posts'[Len(posts')].md5)]_vars

(***************************************************************************)
(* C3: when md5 is null and the store's pick resolves to null, the         *)
(* invocation returns without an error and has logged in, uploaded,        *)
(* submitted, recorded and notified nothing.                               *)
(***************************************************************************)
EmptySelectionIsNoop == \A i \in Inv : (arg[i] = NULL /\ Ok(i, "pick") /\ md5[i] = NULL) =>
                           /\ pc[i] = "returned"
                           /\ error[i] = NULL
                           /\ log[i] = <<Event("pick", "call"), Event("pick", "ok")>>
                           /\ agentSession # i
                           /\ dstResp[i] = NoDstResp /\ blob[i] = NoBlob
                           /\ PostsBy(i) = {} /\ MarksBy(i) = {} /\ SentBy(i) = {}

WitnessEmptySelection == \E i \in Inv : arg[i] = NULL /\ Ok(i, "pick") /\ md5[i] = NULL /\ pc[i] = "returned"

(***************************************************************************)
(* C4: when the upload response carries a non-success flag the invocation  *)
(* ends in failure with nothing composed, submitted, recorded or sent: it  *)
(* has no blob and no post, the store holds no mark of its making (a skin  *)
(* it took from the store is still unpublished when it ends) and the       *)
(* channel got nothing from it.                                            *)
(***************************************************************************)
UploadFailureHalts == \A i \in Inv : dstResp[i] = "failure" =>
                         /\ pc[i] = "threw"
                         /\ error[i] = UploadFailed
                         /\ Last(log[i]) = Event("upload", "fail")
                         /\ \A op \in {"buildPost", "post", "mark", "fetch", "send"} : ~Called(i, op)
                         /\ blob[i] = NoBlob /\ postData[i] = NoDoc
                         /\ PostsBy(i) = {} /\ MarksBy(i) = {} /\ SentBy(i) = {}
                         /\ (arg[i] = NULL /\ \A j \in Inv : j > i => pc[j] = "idle") => ~Published(md5[i])

WitnessUploadFailure == \E i \in Inv : dstResp[i] = "failure" /\ pc[i] = "threw" /\ arg[i] = NULL

(***************************************************************************)
(* C5: a failure of the notifier (the channel fetch or the send) after a   *)
(* successful publish does not propagate: the invocation completes         *)
(* without raising and its post and mark remain.                           *)
(***************************************************************************)
NotifierFailureIsolated == \A i \in Inv : (Failed(i, "fetch") \/ Failed(i, "send")) => pc[i] # "threw" /\ PostsBy(i) # {}

(***************************************************************************)
(* C6: the failure an invocation reports names the stage that failed       *)
(* (transform, login/upload, compose/submit, record): two invocations that *)
(* report the same failure failed in the same stage, so a recording        *)
(* failure cannot be taken for a failure before the submission.            *)
(***************************************************************************)
ReportedStage(op) == CASE StageOf(op) = "transform" -> "transform"
                       [] StageOf(op) \in {"login", "upload"} -> "login/upload"
                       [] StageOf(op) \in {"compose", "submit"} -> "compose/submit"
                       [] StageOf(op) = "record" -> "record"
                       [] OTHER -> "none"

FailureNamesStage == \A i, j \in Inv : (pc[i] = "threw" /\ pc[j] = "threw" /\ ReportedStage(Last(log[i]).op) # "none" /\ ReportedStage(Last(log[j]).op) # "none" /\ error[i] = error[j]) => ReportedStage(Last(log[i]).op) = ReportedStage(Last(log[j]).op)

(***************************************************************************)
(* C7: when the submission succeeds and the recording write fails, the     *)
(* invocation fails with the store's error: its post is public, the store  *)
(* holds no mark for that post (a skin with no other post is still         *)
(* unpublished) and nothing is sent to the channel.                        *)
(***************************************************************************)
RecordingFailureSurfaces == \A i \in Inv : Failed(i, "mark") =>
                               /\ pc[i] = "threw"
                               /\ error[i] = ErrorOf("mark")
                               /\ \E k \in PostsBy(i) : posts[k].md5 = md5[i]
                               /\ MarksBy(i) = {}
                               /\ PostsOf(md5[i]) = PostsBy(i) => ~Published(md5[i])
                               /\ url[i] = NoUrl
                               /\ ~Called(i, "fetch") /\ ~Called(i, "send") /\ SentBy(i) = {}

WitnessRecordingFailure == \E i \in Inv : Failed(i, "mark") /\ PostsBy(i) # {} /\ ~Published(md5[i])

(***************************************************************************)
(* C8: when every invocation takes its skin from the store (md5 == null),  *)
(* the invocations run one after another and no recording write fails, no  *)
(* skin has more than one public post, whatever other stages failed.       *)
(***************************************************************************)
RetryIsSafeWithoutRecordingFailure == ((\A i \in Inv : arg[i] = NULL) /\ (\A i \in Inv : ~Failed(i, "mark"))) => \A m \in Md5s : Cardinality(PostsOf(m)) <= 1

\* A skin whose publication failed at the submission is published by the next run.
WitnessRetry == \E i, j \in Inv : i < j /\ arg[i] = NULL /\ arg[j] = NULL /\ Failed(i, "post") /\ md5[j] = md5[i] /\ pc[j] = "returned" /\ PostsBy(j) # {}

(***************************************************************************)
(* C9: the link facet of the post satisfies 0 <= byteStart < byteEnd <=    *)
(* byteLength(text) and covers exactly the UTF-8 bytes of the name at the  *)
(* start of the text, for every name.                                      *)
(***************************************************************************)
FacetSpansName == draft.pc \in {"facets", "embed", "done"} =>
                     /\ Len(draft.facets) = 1
                     /\ LET index == draft.facets[1].index
                        IN /\ 0 <= index.byteStart
                           /\ index.byteStart < index.byteEnd
                           /\ index.byteEnd <= ByteLength(PostText(draft.name))
                           /\ index.byteStart = 0
                           /\ index.byteEnd = ByteLength(draft.name)

(***************************************************************************)
(* C10: the embed of the document built by buildPost has the "record with  *)
(* media" discriminator and carries the image embed's images with the      *)
(* uploaded blob.                                                          *)
(***************************************************************************)
EmbedKeepsWrapperType == draft.pc = "done" =>
                            /\ draft.doc.embed.type = "app.bsky.embed.recordWithMedia"
                            /\ draft.doc.embed.images = draft.embed.images
                            /\ draft.doc.embed.images[1].image = draft.blob

\* The places of the events of op in the log of invocation i.
EventsAt(i, op, ev) == {k \in 1..Len(log[i]) : log[i][k].op = op /\ log[i][k].ev = ev}

\* C11: an invocation that reaches the upload has issued exactly one login of
\* its own, which resolved before the upload was called; its blob was stored
\* and its post submitted under the session of that login, not under the
\* session of an earlier invocation; and after a rejected login it has called
\* no upload, submission, recording or notification and has left no post, no
\* mark and no message.
OwnLoginFirst == \A i \in Inv :
                    /\ blob[i] # NoBlob => blob[i].session = i
                    /\ \A k \in PostsBy(i) : posts[k].session = i
                    /\ Called(i, "upload") => \E k \in 1..Len(log[i]) :
                                                 /\ log[i][k].op = "login" /\ log[i][k].ev = "call"
                                                 /\ log[i][k + 1].op = "login" /\ log[i][k + 1].ev = "ok"
                                                 /\ \A n \in 1..Len(log[i]) : log[i][n].ev = "call" =>
                                                       /\ log[i][n].op = "login" => n = k
                                                       /\ log[i][n].op \in {"upload", "post"} => k + 1 < n
                    /\ pc[i] = "threw" /\ Last(log[i]).op = "login" =>
                          /\ \A op \in {"upload", "buildPost", "post", "mark", "fetch", "send"} : ~Called(i, op)
                          /\ blob[i] = NoBlob
                          /\ PostsBy(i) = {}
                          /\ MarksBy(i) = {}
                          /\ SentBy(i) = {}
                    /\ Failed(i, "login") => pc[i] = "threw" /\ Last(log[i]).op = "login"

\* A later invocation has submitted its post, after an earlier invocation
\* had logged in.
WitnessOwnLogin == \E i, j \in Inv : /\ i < j
                                     /\ Ok(i, "login")
                                     /\ Ok(j, "login")
                                     /\ PostsBy(j) # {}

\* C12: within one invocation no operation is called twice, whatever failed:
\* a step never issues a call of login, upload, submission, recording write,
\* notification send (or any other awaited operation) that the invocation's
\* log already holds, and never adds a post or a channel message for an
\* invocation that has one.
NoRetry == [][\A i \in Inv :
                 /\ \A k \in (Len(log[i]) + 1)..Len(log'[i]) : log'[i][k].ev = "call" => ~Called(i, log'[i][k].op)
                 /\ Len(posts') > Len(posts) /\ Last(posts').by = i => PostsBy(i) = {}
                 /\ Len(sent') > Len(sent) /\ Last(sent').by = i => SentBy(i) = {}]_vars

\* An invocation has ended on a rejected submission, after its login and its
\* upload succeeded.
WitnessNoRetry == \E i \in Inv : /\ pc[i] = "threw"
                                 /\ Failed(i, "post")
                                 /\ Ok(i, "login")
                                 /\ Ok(i, "upload")

\* C13: an invocation called with an explicit md5 never asks the store for a
\* candidate, and the skin it loads, posts and marks is the one it was given;
\* the store's pick is called exactly by the invocations given no md5, as
\* their first call.
ExplicitKeyIsPublished == \A i \in Inv : pc[i] # "idle" =>
                             /\ arg[i] # NULL => /\ ~Called(i, "pick")
                                                 /\ md5[i] = arg[i]
                                                 /\ \A k \in PostsBy(i) : posts[k].md5 = arg[i]
                                                 /\ MarksBy(i) \subseteq {arg[i]}
                             /\ arg[i] = NULL => log[i][1] = Event("pick", "call")
                             /\ Called(i, "pick") => arg[i] = NULL

\* An invocation given an md5 has posted and recorded it while the store
\* still held an unpublished candidate.
WitnessExplicitKey == \E i \in Inv : /\ arg[i] # NULL
                                     /\ Ok(i, "mark")
                                     /\ arg[i] \in MarksBy(i)
                                     /\ \E m \in Md5s : ~Published(m)

\* C14: for a source image of width w and height h the resize is requested at
\* exactly (2w, 2h), and the aspectRatio of the image embed, as built and as
\* carried by the post document, is that same pair and not (w, h).
AspectRatioIsTransformed == /\ draft.pc \in {"resized", "facets", "embed", "done"} => draft.resized = [width |-> 2 * draft.width, height |-> 2 * draft.height]
                            /\ draft.pc \in {"embed", "done"} => /\ draft.embed.images[1].aspectRatio = draft.resized
                                                                /\ draft.embed.images[1].aspectRatio # [width |-> draft.width, height |-> draft.height]
                            /\ draft.pc = "done" => /\ Len(draft.doc.embed.images) = 1
                                                    /\ draft.doc.embed.images[1].aspectRatio = draft.resized

\* A post document was built for a source image that is not square.
WitnessAspectRatio == /\ draft.pc = "done"
                      /\ draft.width # draft.height

\* A later invocation has written the mark of the skin of invocation i again.
MarkedAgainAfter(i) == \E j \in Inv : j > i /\ md5[j] = md5[i] /\ Ok(j, "mark")

\* C15: after a run whose every call succeeded, the one message the
\* invocation sent to the channel is the uri of the response the platform
\* gave to the submission of its own post, the mark the store holds for its
\* md5 (until a later invocation writes it again) is the cid and uri of that
\* same response, and the recording write had resolved before the channel
\* was fetched and the message sent; no message is sent without it.
NotifiesRecordedUri == \A i \in Inv :
                          /\ Ok(i, "send") => \E k \in PostsBy(i) :
                                                 /\ postResp[i] = PostResp(k)
                                                 /\ \A n \in SentBy(i) : sent[n].url = PostResp(k).uri
                                                 /\ Cardinality(SentBy(i)) = 1
                                                 /\ ~MarkedAgainAfter(i) => posted[md5[i]] = {Mark(PostResp(k).cid, PostResp(k).uri)}
                                                 /\ \E r \in EventsAt(i, "mark", "ok") : \A n \in EventsAt(i, "fetch", "call") \cup EventsAt(i, "send", "call") : r < n
                          /\ SentBy(i) # {} => Ok(i, "mark")

\* The second post of the platform was submitted, recorded and notified by
\* a run that succeeded.
WitnessNotifiesRecordedUri == \E i \in Inv : /\ Ok(i, "send")
                                             /\ pc[i] = "returned"
                                             /\ postResp[i].cid > 1
                                             /\ SentBy(i) # {}

\* C16: when invocations overlap, each one's upload and submission run under
\* the session established by its own login: the agent's session is not a
\* variable one invocation writes and another reads.
OwnSessionWhenOverlapping == \A i \in Inv : /\ blob[i] # NoBlob => blob[i].session = i
                                            /\ \A k \in PostsBy(i) : posts[k].session = i

\* C17: whatever the order of the mounts and unmounts, listenerRefCount is
\* the number of mounted components and never negative, the document holds
\* the mousemove listener exactly while listenerRefCount > 0 (so it is added
\* when the count leaves 0 and removed when it returns to 0), and it is
\* never added again while it is registered.
GlobalListenerMatchesCount == /\ listenerRefCount = Cardinality({c \in Comp : mounted[c]})
                              /\ listenerRefCount >= 0
                              /\ mouseMoveAdds > 0 <=> listenerRefCount > 0
                              /\ mouseMoveAdds <= 1

\* Two components share the one listener, which has moved the cursor
\* position.
WitnessSharedListener == /\ listenerRefCount >= 2
                         /\ mouseMoveAdds = 1
                         /\ cursorPositionRef.pageX > 0

\* C18: the value changes only in a step in which the then-callback of an
\* effect that is not disposed runs, and to the value its promise resolved
\* to; the callback of a disposed effect (the component unmounted, or
\* propValue was replaced, before the promise resolved) leaves the value as
\* it was; and the value is null as long as no callback has set it.
DisposedNeverSets == [][/\ value' # value => \E e \in 1..Len(effects) :
                                                /\ effects[e].then = "pending"
                                                /\ effects'[e].then # "pending"
                                                /\ ~effects[e].disposed
                                                /\ effects[e].promise \in resolved
                                                /\ value' = ValueOf(effects[e].promise)
                        /\ \A e \in 1..Len(effects) : effects[e].disposed /\ effects[e].then = "pending" /\ effects'[e].then # "pending" => value' = value
                        /\ (\A e \in 1..Len(effects') : effects'[e].then # "set") => value' = 0]_vars

\* A promise that was replaced has resolved late and its callback has run,
\* and the value is the one the promise that replaced it resolved to.
WitnessDisposedNeverSets == \E d, e \in 1..Len(effects) : /\ d < e
                                                          /\ effects[d].then = "returned"
                                                          /\ effects[e].then = "set"
                                                          /\ effects[d].promise # effects[e].promise
                                                          /\ value = ValueOf(effects[e].promise)

\* C19: for one registration the callback is called at most once: once it
\* has been called, or the cleanup has run, the document no longer holds the
\* listener; while only clicks inside the element have happened the
\* callback has not been called and the listener stays; and with a null
\* element or callback no listener is registered and nothing is called.
ClickAwayCallsOnce == /\ callbackCalls <= 1
                      /\ callbackCalls >= 1 => ~onClickAway.listener
                      /\ onClickAway.phase = "cleaned" => ~onClickAway.listener
                      /\ onClickAway.phase = "registered" /\ (\A k \in 1..Len(clicks) : clicks[k] = "inside") => onClickAway.listener /\ callbackCalls = 0
                      /\ onClickAway.phase = "skipped" => ~onClickAway.listener /\ callbackCalls = 0

\* C20: while the component is mounted, once more than the throttle's
\* 100 ms have passed since the last resize of the window, the size the hook
\* returns is the current Utils.getWindowSize().
ResizeUpdatesSize == resizeListener = "registered" /\ elapsed > ThrottleDelay => size = windowSize

=============================================================================
